---------------------------- MODULE Spec2Model ----------------------------
(***************************************************************************)
(* A model of file_organizer.py: FileOrganizer.process_all_files and the   *)
(* rename and organize engines it drives, over a small filesystem.         *)
(*                                                                         *)
(* Strings are sequences of one-character strings, so that the string      *)
(* operations of the code (re.sub, strip, slicing, Path.suffix, f-strings) *)
(* are computed as the code computes them.  A path is a record             *)
(* [dir, name]: dir is the sequence of directory names below root_folder,  *)
(* name the file name.  The filesystem maps each existing path of a        *)
(* regular file to the identity (inode) of the file stored there.          *)
(***************************************************************************)
EXTENDS Integers, Sequences, FiniteSets, TLC

(* ------------------------------ bounds --------------------------------- *)

\* The largest number of files under the root folder initially, when the run
\* may rename and organize (main()'s choice "3").
MaxFiles == 2

\* The same, when a run either renames or organizes (choices "1" and "2").
MaxEngineFiles == 3

\* The same, and the number of runs, when the folder is renamed repeatedly.
MaxAgainFiles == 2

MaxRuns == 2

(* --------------------------- string helpers ---------------------------- *)

\* s[:n]
Take(s, n) == IF Len(s) <= n THEN s ELSE SubSeq(s, 1, n)

\* s[n:] with n counted from 1: the part of s from position n on
Drop(s, n) == IF n > Len(s) THEN << >> ELSE SubSeq(s, n, Len(s))

\* str.lstrip(chars)
RECURSIVE LStrip(_, _)
LStrip(s, chars) ==
    IF s # << >> /\ Head(s) \in chars THEN LStrip(Tail(s), chars) ELSE s

\* str.rstrip(chars)
RECURSIVE RStrip(_, _)
RStrip(s, chars) ==
    IF s # << >> /\ s[Len(s)] \in chars
    THEN RStrip(SubSeq(s, 1, Len(s) - 1), chars)
    ELSE s

\* str.strip(chars)
StripChars(s, chars) == RStrip(LStrip(s, chars), chars)

\* The whitespace of the model's alphabet (\s of re, and str.strip()).
Whitespace == {" ", "\t"}

\* The character class [<>:"/\\|?*] of lines 119 and 171.
IllegalChars == {"<", ">", ":", "\"", "/", "\\", "|", "?", "*"}

\* re.sub(r'[<>:"/\\|?*]', '', s)
RemoveIllegal(s) == SelectSeq(s, LAMBDA c : c \notin IllegalChars)

\* re.sub(r'\s+', ' ', s): every run of whitespace becomes one space
RECURSIVE CollapseWhitespace(_)
CollapseWhitespace(s) ==
    IF s = << >> THEN << >>
    ELSE IF Head(s) \in Whitespace
         THEN <<" ">> \o CollapseWhitespace(LStrip(s, Whitespace))
         ELSE <<Head(s)>> \o CollapseWhitespace(Tail(s))

\* str.lower() on the letters of the model's alphabet
LowerChar(c) ==
    CASE c = "A" -> "a"
      [] c = "F" -> "f"
      [] c = "M" -> "m"
      [] c = "R" -> "r"
      [] c = "T" -> "t"
      [] c = "X" -> "x"
      [] c = "O" -> "o"
      [] OTHER   -> c

Lower(s) == [i \in 1..Len(s) |-> LowerChar(s[i])]

Digit(d) ==
    CASE d = 0 -> "0" [] d = 1 -> "1" [] d = 2 -> "2" [] d = 3 -> "3"
      [] d = 4 -> "4" [] d = 5 -> "5" [] d = 6 -> "6" [] d = 7 -> "7"
      [] d = 8 -> "8" [] d = 9 -> "9"

\* str(n) of a positive integer, as the f-string {counter} formats it
RECURSIVE IntToStr(_)
IntToStr(n) ==
    IF n < 10 THEN <<Digit(n)>> ELSE IntToStr(n \div 10) \o <<Digit(n % 10)>>

\* The largest index of "." in name, 0 when there is none (str.rfind + 1).
LastDot(name) ==
    LET dots == {i \in 1..Len(name) : name[i] = "."}
    IN  IF dots = {} THEN 0 ELSE CHOOSE i \in dots : \A j \in dots : j <= i

\* PurePath.suffix: the last dot and what follows it, unless the dot is the
\* first or the last character of the name.
Suffix(name) ==
    LET i == LastDot(name)
    IN  IF 1 < i /\ i < Len(name) THEN Drop(name, i) ELSE << >>

\* PurePath.stem
Stem(name) ==
    LET i == LastDot(name)
    IN  IF 1 < i /\ i < Len(name) THEN Take(name, i - 1) ELSE name


(* ------------------------ program constants ---------------------------- *)

\* new_name[:60] of ask_ai_for_name
NameLimit == 60

\* name[:200] of sanitize_filename
FilenameLimit == 200

\* The success status of an HTTP response.
HttpOk == 200

\* SUPPORTED_EXTENSIONS
SUPPORTED_EXTENSIONS ==
    { <<".", "p", "d", "f">>, <<".", "d", "o", "c">>,
      <<".", "d", "o", "c", "x">>, <<".", "t", "x", "t">>,
      <<".", "e", "p", "u", "b">>, <<".", "c", "s", "v">>,
      <<".", "x", "l", "s", "x">>, <<".", "x", "l", "s">>,
      <<".", "r", "t", "f">>, <<".", "o", "d", "t">>, <<".", "m", "d">> }

\* The ten labels the prompt of ask_ai_for_category offers.
Finance == <<"F", "i", "n", "a", "n", "c", "e">>

Miscellaneous ==
    <<"M", "i", "s", "c", "e", "l", "l", "a", "n", "e", "o", "u", "s">>

CategoryLabels ==
    { <<"W", "o", "r", "k">>, <<"P", "e", "r", "s", "o", "n", "a", "l">>,
      Finance, <<"M", "e", "d", "i", "c", "a", "l">>,
      <<"E", "d", "u", "c", "a", "t", "i", "o", "n">>,
      <<"L", "e", "g", "a", "l">>, <<"P", "h", "o", "t", "o", "s">>,
      <<"P", "r", "o", "j", "e", "c", "t", "s">>,
      <<"A", "r", "c", "h", "i", "v", "e">>, Miscellaneous }

\* The folder name of organize_root = self.root_folder / "Organized"
Organized == <<"O", "r", "g", "a", "n", "i", "z", "e", "d">>

(* ----------------------- the inference service ------------------------- *)

\* A response of the service: an exception of requests (a timeout, a
\* refused connection, a body without choices[0].message.content), or an
\* HTTP status with the generated text.
Response(exc, status, text) == [exc |-> exc, status |-> status, text |-> text]

Failure == { Response(TRUE, 0, << >>), Response(FALSE, 500, << >>) }

\* What the liveness probe GET /v1/models can answer.
ProbeResponses == Failure \cup { Response(FALSE, HttpOk, << >>) }

\* The texts the model lets the service generate for a file name.
NameTexts ==
    { <<"A">>,                      \* a plain name
      <<".", "A">>,                 \* a name that begins with a dot
      <<" ", ":", " ", "A", "\t", " ">>,  \* illegal characters and whitespace
      << >> }                       \* nothing

NameResponses == Failure \cup { Response(FALSE, HttpOk, t) : t \in NameTexts }

\* The texts the model lets the service generate for a category.
Recipes == <<"R", "e", "c", "i", "p", "e", "s">>

CategoryTexts == { Finance, <<" ">> \o Finance \o <<" ">>, Recipes }

CategoryResponses ==
    Failure \cup { Response(FALSE, HttpOk, t) : t \in CategoryTexts }

\* The return value of ask_ai_for_name: None, or a string.
None == [none |-> TRUE, val |-> << >>]

Some(s) == [none |-> FALSE, val |-> s]

\* ask_ai_for_name, given the response of requests.post
ask_ai_for_name(response) ==
    IF response.exc THEN None
    ELSE IF response.status = HttpOk
         THEN LET stripped  == StripChars(response.text, Whitespace)
                  cleaned   == RemoveIllegal(stripped)
                  collapsed == CollapseWhitespace(cleaned)
              IN  Some(StripChars(Take(collapsed, NameLimit), Whitespace))
         ELSE None

\* ask_ai_for_category, given the response of requests.post
ask_ai_for_category(response) ==
    IF response.exc THEN Miscellaneous
    ELSE IF response.status = HttpOk
         THEN StripChars(response.text, Whitespace)
         ELSE Miscellaneous

\* The probe as it would be if only an exception counted as a failure.
ProbeSucceeds_AnyStatus(response) == ~response.exc

\* The liveness probe of process_all_files: test_response.status_code == 200,
\* and no exception.
ProbeSucceeds(response) == ~response.exc /\ response.status = HttpOk

(* ----------------------------- file names ------------------------------ *)

\* sanitize_filename
sanitize_filename(name) ==
    Take(StripChars(RemoveIllegal(name), {".", " "}), FilenameLimit)

\* f"{new_name} ({file_date}){file_path.suffix}"
DatedName(new_name, file_date, suffix) ==
    new_name \o <<" ", "(">> \o file_date \o <<")">> \o suffix

\* f"{new_name} ({file_date}) [{counter}]{file_path.suffix}"
DatedNameNumbered(new_name, file_date, n, suffix) ==
    new_name \o <<" ", "(">> \o file_date \o <<")", " ", "[">> \o IntToStr(n)
        \o <<"]">> \o suffix

\* f"{file_path.stem} [{counter}]{file_path.suffix}"
NameNumbered(name, n) ==
    Stem(name) \o <<" ", "[">> \o IntToStr(n) \o <<"]">> \o Suffix(name)

\* file_path.suffix.lower() in SUPPORTED_EXTENSIONS
Supported(name) == Lower(Suffix(name)) \in SUPPORTED_EXTENSIONS

(* ------------------------------- paths --------------------------------- *)

Path(dir, name) == [dir |-> dir, name |-> name]

\* Path / name, as a directory: joining the empty string leaves the path.
JoinDir(dir, name) == IF name = << >> THEN dir ELSE Append(dir, name)

\* The directory a path names, were it a directory.
AsDir(p) == JoinDir(p.dir, p.name)

\* dir and every directory above it (mkdir parents=True creates them).
Ancestors(dir) == { SubSeq(dir, 1, k) : k \in 0..Len(dir) }

(* --------------------------- the filesystem ---------------------------- *)

March == <<"2", "0", "2", "4", "-", "0", "3">>

November == <<"2", "0", "2", "3", "-", "1", "1">>

Txt == <<".", "t", "x", "t">>

\* The files the root folder may hold initially, each with the month of its
\* modification time.  A file's identity is its index here.
Universe ==
    << [path |-> Path(<< >>, <<"n">> \o Txt), month |-> March],
       [path |-> Path(<< >>, <<"m">> \o Txt), month |-> March],
       [path |-> Path(<< >>, DatedName(<<"A">>, March, Txt)), month |-> March],
       [path |-> Path(<< >>, DatedNameNumbered(<<"A">>, March, 1, Txt)),
        month |-> March],
       [path |-> Path(<< >>, <<"p", ".", "p", "n", "g">>), month |-> March],
       [path |-> Path(<<Organized, Finance>>, <<"n">> \o Txt),
        month |-> November],
       [path |-> Path(<<Organized, Finance>>, NameNumbered(<<"n">> \o Txt, 1)),
        month |-> March] >>

FileIds == 1..Len(Universe)

VARIABLES
    fs,             \* the regular files: existing path -> file identity
    dirs,           \* the existing directories
    log_files,      \* the number of organization_log_*.json files written
    rename_log,     \* self.rename_log
    organize_log,   \* self.organize_log
    pc,             \* where the current run of process_all_files stands
    rename,         \* the arguments of process_all_files
    organize,
    dry_run,
    test_response,  \* the answer to the liveness probe of the current run
    all_files,      \* the list the current loop walks
    idx,            \* the position of the loop in all_files
    file_path,      \* the locals of rename_file and of the organize loop
    file_date,
    new_name,
    category,
    new_path,
    counter,
    runs,           \* history: the number of runs started
    at_start,       \* history: fs, dirs and log_files when the run started
    calls,          \* history: the advisor calls of the current run
    last_rename,    \* history: the latest rename performed, and fs after it
    initial         \* history: fs at the beginning

disk == <<fs, dirs, log_files>>

logs == <<rename_log, organize_log>>

args == <<rename, organize, dry_run, test_response>>

locals == <<file_path, file_date, new_name, category, new_path, counter>>

history == <<runs, at_start, calls, last_rename, initial>>

vars == <<disk, logs, pc, args, all_files, idx, locals, history>>

\* Path.exists(): a file or a directory is there.
Exists(p) == p \in DOMAIN fs \/ AsDir(p) \in dirs

\* os.rename / shutil.move of a regular file onto dst: the file leaves src,
\* and whatever regular file was at dst is replaced.
Moved(src, dst) ==
    [p \in (DOMAIN fs \ {src}) \cup {dst} |->
        IF p = dst THEN fs[src] ELSE fs[p]]

\* get_file_date_string: the "%Y-%m" of the file's modification time, which
\* renames and moves keep.
get_file_date_string(p) == Universe[fs[p]].month

\* root_folder.rglob('*') filtered by is_file() and the supported extensions
SupportedFiles == { p \in DOMAIN fs : Supported(p.name) }

\* The orders in which rglob may yield a set of paths.
Orderings(S) ==
    { s \in [1..Cardinality(S) -> S] :
        \A i, j \in 1..Cardinality(S) : i # j => s[i] # s[j] }

\* mkdir(parents=True, exist_ok=True) raises when a regular file is in the
\* way; otherwise the environment decides (permissions, a full disk).
MkdirBlocked(dir) == \E p \in DOMAIN fs : AsDir(p) \in Ancestors(dir)

NoPath == Path(<< >>, << >>)

NoRename == [valid |-> FALSE, path |-> NoPath, name |-> << >>,
             fs |-> << >>, dirs |-> {}]

InitWith(max_files) ==
    /\ \E ids \in SUBSET FileIds :
          /\ Cardinality(ids) <= max_files
          /\ fs = [p \in { Universe[i].path : i \in ids } |->
                     CHOOSE i \in ids : Universe[i].path = p]
          /\ dirs = UNION { Ancestors(Universe[i].path.dir) : i \in ids }
                      \cup { << >> }
    /\ initial = fs
    /\ log_files = 0
    /\ rename_log = << >>
    /\ organize_log = << >>
    /\ pc = "idle"
    /\ rename = FALSE
    /\ organize = FALSE
    /\ dry_run = TRUE
    /\ test_response = Response(TRUE, 0, << >>)
    /\ all_files = << >>
    /\ idx = 1
    /\ file_path = NoPath
    /\ file_date = << >>
    /\ new_name = << >>
    /\ category = << >>
    /\ new_path = NoPath
    /\ counter = 1
    /\ runs = 0
    /\ at_start = [fs |-> fs, dirs |-> dirs, log_files |-> 0]
    /\ calls = 0
    /\ last_rename = NoRename

(* ------------------------- process_all_files --------------------------- *)

Ended == {"idle", "aborted", "done", "crashed"}

\* After the rename loop: organize_files if asked for, else the log.
AfterRename == IF organize THEN "organize_files" ELSE "save"

\* FileOrganizer(folder_path).process_all_files(rename, organize, dry_run),
\* up to the first loop: a fresh organizer, the liveness probe, the
\* enumeration of the supported files.
Call(modes) ==
    /\ runs' = runs + 1
    /\ \E m \in modes, d \in BOOLEAN :
          rename' = m[1] /\ organize' = m[2] /\ dry_run' = d
    /\ rename_log' = << >>
    /\ organize_log' = << >>
    /\ at_start' = [fs |-> fs, dirs |-> dirs, log_files |-> log_files]
    /\ calls' = 0
    /\ idx' = 1
    /\ \E response \in ProbeResponses :
          /\ test_response' = response
          /\ IF ProbeSucceeds(response)
             THEN /\ \E order \in Orderings(SupportedFiles) :
                        all_files' = order
                  /\ pc' = IF rename' THEN "rename"
                           ELSE IF organize' THEN "organize_files" ELSE "save"
             ELSE /\ all_files' = << >>
                  /\ pc' = "aborted"
    /\ UNCHANGED <<disk, locals, last_rename, initial>>

\* The end of the loop "for file_path in all_files: self.rename_file(...)".
rename_loop_end ==
    /\ pc = "rename"
    /\ idx > Len(all_files)
    /\ pc' = AfterRename
    /\ UNCHANGED <<disk, logs, args, all_files, idx, locals, history>>

(* ----------------------------- rename_file ----------------------------- *)

\* The locals of a call that returned, or of a loop iteration that ended,
\* are gone: each is assigned again before it is read.
Forget ==
    /\ file_path' = NoPath
    /\ file_date' = << >>
    /\ new_name' = << >>
    /\ category' = << >>
    /\ new_path' = NoPath
    /\ counter' = 1

\* rename_file returns: the loop of process_all_files goes on.
Returned ==
    /\ idx' = idx + 1
    /\ pc' = "rename"
    /\ Forget

\* The loop condition with the comparison the wrong way round.
RenameCollides_WrongTest(candidate, source) ==
    Exists(candidate) /\ candidate = source

\* The loop condition without the exemption of the file's own path.
RenameCollides_AnyExisting(candidate, source) == Exists(candidate)

\* The condition of the loop "while new_path.exists() and new_path != file_path"
RenameCollides(candidate, source) == Exists(candidate) /\ candidate # source

\* The condition as it would be if dry_run were not consulted.
ShouldRename_IgnoringDryRun(dry, target, source) == target # source

\* The condition "if not dry_run and new_path != file_path"
ShouldRename(dry, target, source) == ~dry /\ target # source

\* The log as it would be if the entry were appended before the rename.
rename_log_after_Always(renamed, old, new) ==
    Append(rename_log, [old |-> old, new |-> new])

\* self.rename_log after the try block of rename_file: the entry is appended
\* when file_path.rename returned, and not when it raised.
rename_log_after(renamed, old, new) ==
    IF renamed THEN Append(rename_log, [old |-> old, new |-> new])
    ELSE rename_log

\* rename_file, from its call to the start of the duplicates loop: the
\* extension check, the date, the advisor call, the first candidate.
rename_file ==
    /\ pc = "rename"
    /\ idx <= Len(all_files)
    /\ LET path == all_files[idx]
       IN  IF ~Supported(path.name)
           THEN Returned /\ UNCHANGED calls
           ELSE IF path \notin DOMAIN fs
           THEN \* os.path.getmtime raises, and nothing catches it
                /\ pc' = "crashed"
                /\ UNCHANGED <<locals, calls, idx>>
           ELSE \E response \in NameResponses :
                  LET suggestion == ask_ai_for_name(response)
                      date == get_file_date_string(path)
                  IN  /\ calls' = calls + 1
                      /\ IF suggestion.none \/ suggestion.val = << >>
                         THEN Returned
                         ELSE /\ file_path' = path
                              /\ file_date' = date
                              /\ new_name' = suggestion.val
                              /\ new_path' =
                                   Path(path.dir,
                                        sanitize_filename(
                                          DatedName(suggestion.val, date,
                                                    Suffix(path.name))))
                              /\ counter' = 1
                              /\ pc' = "rename_while"
                              /\ UNCHANGED <<idx, category>>
    /\ UNCHANGED <<disk, logs, args, all_files, runs, at_start, last_rename,
                   initial>>

\* One evaluation of the loop condition of rename_file, and the loop body
\* when it holds.
rename_while ==
    /\ pc = "rename_while"
    /\ IF RenameCollides(new_path, file_path)
       THEN /\ new_path' = Path(file_path.dir,
                                DatedNameNumbered(new_name, file_date, counter,
                                                  Suffix(file_path.name)))
            /\ counter' = counter + 1
            /\ pc' = pc
       ELSE /\ pc' = "rename_do"
            /\ UNCHANGED <<new_path, counter>>
    /\ UNCHANGED <<disk, logs, args, all_files, idx, file_path, file_date,
                   new_name, category, history>>

\* rename_file after the loop: the rename itself, in a live run.
rename_do ==
    /\ pc = "rename_do"
    /\ IF ShouldRename(dry_run, new_path, file_path)
       THEN \E renamed \in BOOLEAN :
              /\ fs' = IF renamed THEN Moved(file_path, new_path) ELSE fs
              /\ rename_log' = rename_log_after(renamed, file_path, new_path)
              /\ last_rename' =
                   IF renamed
                   THEN [valid |-> TRUE, path |-> new_path, name |-> new_name,
                         fs |-> fs', dirs |-> dirs]
                   ELSE last_rename
              /\ Returned
       ELSE /\ Returned
            /\ UNCHANGED <<fs, rename_log, last_rename>>
    /\ UNCHANGED <<dirs, log_files, organize_log, args, all_files, runs,
                   at_start, calls, initial>>

(* ---------------------------- organize_files --------------------------- *)

\* category_folder = Path(organize_root) / category
category_folder(label) == JoinDir(<<Organized>>, label)

\* The organize engine as it would be without its duplicates loop.
OrganizeCollides_Never(candidate, source) == FALSE

\* The condition of the loop "while new_path.exists()"
OrganizeCollides(candidate, source) == Exists(candidate)

\* organize_files up to its loop: the files are enumerated again.
organize_files ==
    /\ pc = "organize_files"
    /\ \E order \in Orderings(SupportedFiles) : all_files' = order
    /\ idx' = 1
    /\ pc' = "organize"
    /\ UNCHANGED <<disk, logs, args, locals, history>>

\* The end of the loop of organize_files.
organize_loop_end ==
    /\ pc = "organize"
    /\ idx > Len(all_files)
    /\ pc' = "save"
    /\ UNCHANGED <<disk, logs, args, all_files, idx, locals, history>>

\* One file of organize_files, up to the duplicates loop: the advisor call
\* and, in a live run, the category folder.
organize_file ==
    /\ pc = "organize"
    /\ idx <= Len(all_files)
    /\ calls' = calls + 1
    /\ \E response \in CategoryResponses :
         LET label == ask_ai_for_category(response)
             folder == category_folder(label)
         IN  IF dry_run
             THEN /\ idx' = idx + 1
                  /\ pc' = pc
                  /\ Forget
                  /\ UNCHANGED dirs
             ELSE \E made \in BOOLEAN :
                    IF made /\ ~MkdirBlocked(folder)
                    THEN /\ dirs' = dirs \cup Ancestors(folder)
                         /\ file_path' = all_files[idx]
                         /\ category' = label
                         /\ new_path' = Path(folder, all_files[idx].name)
                         /\ counter' = 1
                         /\ pc' = "organize_while"
                         /\ UNCHANGED <<idx, file_date, new_name>>
                    ELSE \* mkdir raises outside any try block
                         /\ pc' = "crashed"
                         /\ file_path' = all_files[idx]
                         /\ category' = label
                         /\ UNCHANGED <<dirs, idx, file_date, new_name,
                                        new_path, counter>>
    /\ UNCHANGED <<fs, log_files, logs, args, all_files, runs, at_start,
                   last_rename, initial>>

\* One evaluation of the loop condition of organize_files, and the loop
\* body when it holds.
organize_while ==
    /\ pc = "organize_while"
    /\ IF OrganizeCollides(new_path, file_path)
       THEN /\ new_path' = Path(category_folder(category),
                                NameNumbered(file_path.name, counter))
            /\ counter' = counter + 1
            /\ pc' = pc
       ELSE /\ pc' = "organize_do"
            /\ UNCHANGED <<new_path, counter>>
    /\ UNCHANGED <<disk, logs, args, all_files, idx, file_path, file_date,
                   new_name, category, history>>

\* self.organize_log after the try block of organize_files.
organize_log_after(moved, source, target) ==
    IF moved
    THEN Append(organize_log,
                [file |-> source.name, from |-> source.dir, to |-> target.dir])
    ELSE organize_log

\* The move of one file, in a live run.
organize_do ==
    /\ pc = "organize_do"
    /\ \E done \in BOOLEAN :
         LET moved == done /\ file_path \in DOMAIN fs
         IN  /\ fs' = IF moved THEN Moved(file_path, new_path) ELSE fs
             /\ organize_log' = organize_log_after(moved, file_path, new_path)
    /\ idx' = idx + 1
    /\ pc' = "organize"
    /\ Forget
    /\ UNCHANGED <<dirs, log_files, rename_log, args, all_files, history>>

(* ------------------------------ the log -------------------------------- *)

\* The end of process_all_files: a live run writes its log file.
save_log ==
    /\ pc = "save"
    /\ log_files' = IF ~dry_run THEN log_files + 1 ELSE log_files
    /\ pc' = "done"
    /\ UNCHANGED <<fs, dirs, logs, args, all_files, idx, locals, history>>

\* The choices of main(): "1", "2", "3", and anything else.
RenameOnly == <<TRUE, FALSE>>

OrganizeOnly == <<FALSE, TRUE>>

AllModes == { RenameOnly, OrganizeOnly, <<TRUE, TRUE>>, <<FALSE, FALSE>> }

(* One call of process_all_files on a fresh organizer, with any arguments. *)

Init == InitWith(MaxFiles)

process_all_files ==
    /\ pc = "idle"
    /\ Call(AllModes)

Next ==
    \/ process_all_files
    \/ rename_file
    \/ rename_while
    \/ rename_do
    \/ rename_loop_end
    \/ organize_files
    \/ organize_file
    \/ organize_while
    \/ organize_do
    \/ organize_loop_end
    \/ save_log

Spec == Init /\ [][Next]_vars

(* One call that renames or organizes, not both, over a larger folder. *)

InitEngines == InitWith(MaxEngineFiles)

process_all_files_one ==
    /\ pc = "idle"
    /\ Call({RenameOnly, OrganizeOnly})

NextEngines ==
    \/ process_all_files_one
    \/ rename_file
    \/ rename_while
    \/ rename_do
    \/ rename_loop_end
    \/ organize_files
    \/ organize_file
    \/ organize_while
    \/ organize_do
    \/ organize_loop_end
    \/ save_log

SpecEngines == InitEngines /\ [][NextEngines]_vars

(* Renaming runs, one after the other, each on a fresh organizer. *)

InitAgain == InitWith(MaxAgainFiles)

process_all_files_again ==
    /\ pc \in Ended
    /\ runs < MaxRuns
    /\ Call({RenameOnly})

NextAgain ==
    \/ process_all_files_again
    \/ rename_file
    \/ rename_while
    \/ rename_do
    \/ rename_loop_end
    \/ save_log

SpecAgain == InitAgain /\ [][NextAgain]_vars

(* ------------------------------ properties ----------------------------- *)

\* The disk is as it was when the run started.
DiskAsAtStart ==
    /\ fs = at_start.fs
    /\ dirs = at_start.dirs
    /\ log_files = at_start.log_files

\* C1: a run with dry_run=True leaves the filesystem exactly as it was: no
\* file is renamed or moved, no folder is created, no log file is written.
C1_DryRunLeavesDiskAlone == (pc # "idle" /\ dry_run) => DiskAsAtStart

\* A dry run that went through renaming and organizing two files.
C1_Witness ==
    /\ pc = "done"
    /\ dry_run /\ rename /\ organize
    /\ Len(all_files) = 2
    /\ calls = 4

\* The probe of the run got a status other than 200, or an exception.
ProbeFailed == test_response.exc \/ test_response.status # 200

\* C2: when the liveness probe fails, in dry and in live mode, the run
\* aborts before it enumerates the files: no advisor call, no change on
\* disk, no log file.
C2_FailedProbeAborts ==
    (pc # "idle" /\ ProbeFailed) =>
        /\ pc = "aborted"
        /\ all_files = << >>
        /\ calls = 0
        /\ DiskAsAtStart

\* A live run over supported files that the failed probe aborted.
C2_Witness ==
    /\ pc = "aborted"
    /\ ~dry_run /\ rename /\ organize
    /\ ~test_response.exc
    /\ SupportedFiles # {}

\* The candidates of rename_file for the file at hand: the sanitized dated
\* name, and the dated name with " [n]" before the extension.
RenameBase ==
    Path(file_path.dir,
         sanitize_filename(DatedName(new_name, file_date,
                                     Suffix(file_path.name))))

RenameNumbered(n) ==
    Path(file_path.dir,
         DatedNameNumbered(new_name, file_date, n, Suffix(file_path.name)))

\* The candidates of organize_files for the file at hand.
OrganizeBase == Path(category_folder(category), file_path.name)

OrganizeNumbered(n) ==
    Path(category_folder(category), NameNumbered(file_path.name, n))

\* The number of paths at which something exists.
Occupied == Cardinality(DOMAIN fs) + Cardinality(dirs)

\* The suffix loops end: the counter never passes the number of existing
\* paths by more than one.
LoopsEnd ==
    pc \in {"rename_while", "rename_do", "organize_while", "organize_do"} =>
        counter <= Occupied + 1

\* The organize engine picks suffix N+1 when the plain target is taken by
\* another file and [1]..[N] are taken.
OrganizePicksNext ==
    pc = "organize_do" =>
        \A N \in 0..Occupied :
            ( /\ Exists(OrganizeBase)
              /\ OrganizeBase # file_path
              /\ \A j \in 1..N : Exists(OrganizeNumbered(j))
              /\ ~Exists(OrganizeNumbered(N + 1)) )
            => new_path = OrganizeNumbered(N + 1)

\* C3 as stated: in both engines, when the unsuffixed target exists and is
\* not the source, [1]..[N] are all occupied and [N+1] is free, the chosen
\* target carries the suffix " [N+1]"; and the suffix loops terminate.
C3_Original ==
    /\ LoopsEnd
    /\ OrganizePicksNext
    /\ pc = "rename_do" =>
         \A N \in 0..Occupied :
             ( /\ Exists(RenameBase)
               /\ RenameBase # file_path
               /\ \A j \in 1..N : Exists(RenameNumbered(j))
               /\ ~Exists(RenameNumbered(N + 1)) )
             => new_path = RenameNumbered(N + 1)

\* C3 as amended: the same, provided that in the rename engine none of the
\* names [1]..[N] is the file being renamed itself (the loop stops at the
\* file's own name).
C3_NextFreeSuffix ==
    /\ LoopsEnd
    /\ OrganizePicksNext
    /\ pc = "rename_do" =>
         \A N \in 0..Occupied :
             ( /\ Exists(RenameBase)
               /\ RenameBase # file_path
               /\ \A j \in 1..N :
                     Exists(RenameNumbered(j)) /\ RenameNumbered(j) # file_path
               /\ ~Exists(RenameNumbered(N + 1)) )
             => new_path = RenameNumbered(N + 1)

\* The rename engine chose " [2]": the plain name and " [1]" were taken by
\* other files.
C3_Witness ==
    /\ pc = "rename_do"
    /\ Exists(RenameBase) /\ RenameBase # file_path
    /\ Exists(RenameNumbered(1)) /\ RenameNumbered(1) # file_path
    /\ new_path = RenameNumbered(2)
    /\ ~Exists(new_path)

\* C4: the category label the advisor returns, hence the folder the
\* organize engine creates and moves into, is one of the ten fixed labels.
C4_CategoryIsALabel ==
    /\ pc \in {"organize_while", "organize_do"} => category \in CategoryLabels
    /\ \A d \in dirs \ at_start.dirs :
          d \in UNION { Ancestors(category_folder(l)) : l \in CategoryLabels }

\* C5: once the probe has succeeded, a failure of a rename, of a move or of
\* creating the category folder does not end a live run: every enumerated
\* file is processed and the log is written.
C5_FailuresAreNotFatal ==
    (~ProbeFailed /\ ~dry_run /\ pc \in Ended \ {"idle"}) =>
        /\ pc = "done"
        /\ idx > Len(all_files)
        /\ log_files = at_start.log_files + 1

\* The file that all_files[j] named when the run started is no longer there.
Left(j) ==
    \/ all_files[j] \notin DOMAIN fs
    \/ fs[all_files[j]] # at_start.fs[all_files[j]]

\* The positions in all_files of the files that left their path, in order.
LeftPositions ==
    SelectSeq([j \in 1..Len(all_files) |-> j], LAMBDA j : Left(j))

\* C6: in a live rename pass the rename log holds, in processing order,
\* exactly one entry {old, new} for each file renamed, the file being at
\* new; a file that was skipped, whose rename raised, or whose target is its
\* own path has no entry and is still at its original path.
C6_RenameLogIsExact ==
    (rename /\ ~dry_run /\ pc \in {"rename", "rename_while", "rename_do",
                                   "save", "done"}) =>
        /\ Len(rename_log) = Len(LeftPositions)
        /\ \A k \in 1..Len(rename_log) :
              LET old == all_files[LeftPositions[k]]
              IN  /\ LeftPositions[k] < idx
                  /\ rename_log[k].old = old
                  /\ rename_log[k].new # old
                  /\ rename_log[k].new \in DOMAIN fs
                  /\ fs[rename_log[k].new] = at_start.fs[old]

\* A live rename pass over three files that renamed two of them.
C6_Witness ==
    /\ pc = "save"
    /\ rename /\ ~dry_run
    /\ Len(all_files) = 3
    /\ Len(rename_log) = 2
    /\ calls = 3

\* rename_file is about to act on the file the latest rename produced, with
\* the same suggestion, and nothing on disk has changed since.
Rerun ==
    /\ pc = "rename_do"
    /\ last_rename.valid
    /\ file_path = last_rename.path
    /\ new_name = last_rename.name
    /\ fs = last_rename.fs
    /\ dirs = last_rename.dirs

\* C7: rename_file on a file that a live rename already renamed, with the
\* same suggestion and no other change on disk, computes the file's own
\* path: it renames nothing, adds no suffix and logs nothing.
C7_RenameIsIdempotent ==
    [][Rerun => (new_path = file_path /\ fs' = fs
                 /\ rename_log' = rename_log)]_vars

\* The rerun of a live run, on a file that got a collision suffix.
C7_Witness ==
    /\ Rerun
    /\ ~dry_run
    /\ runs = 2
    /\ new_path = RenameNumbered(1)

\* C8: a file that already sits in the folder of the category it is
\* assigned again is left at its path, its name unchanged.
C8_SameFolderStays ==
    (pc = "organize_do" /\ file_path.dir = category_folder(category)) =>
        new_path = file_path

\* name with " [n]" inserted immediately before the extension ext
WithSuffixBefore(name, n, ext) ==
    Take(name, Len(name) - Len(ext)) \o <<" ", "[">> \o IntToStr(n)
        \o <<"]">> \o ext

\* C9: every name the rename engine proposes is the sanitized dated name,
\* or, on a collision, that sanitized name with " [n]" before the extension.
C9_ProposalsAreSanitized ==
    pc \in {"rename_while", "rename_do"} =>
        new_path.name =
            IF counter = 1 THEN RenameBase.name
            ELSE WithSuffixBefore(RenameBase.name, counter - 1,
                                  Suffix(file_path.name))

\* C10: no file is lost or overwritten: a rename or move targets a path
\* where nothing exists, the number of files stays what it was, and each
\* initial file is at exactly one path.
C10_NoFileIsLost ==
    /\ (pc = "rename_do" /\ ~dry_run /\ new_path # file_path) =>
          ~Exists(new_path)
    /\ pc = "organize_do" => ~Exists(new_path)
    /\ Cardinality(DOMAIN fs) = Cardinality(DOMAIN initial)
    /\ \A p \in DOMAIN initial :
          Cardinality({ q \in DOMAIN fs : fs[q] = initial[p] }) = 1

\* A live run that renamed a file past a collision and moved a file.
C10_Witness ==
    /\ pc = "done"
    /\ ~dry_run
    /\ Len(organize_log) >= 1
    /\ \E k \in 1..Len(rename_log) :
          rename_log[k].new.name = DatedNameNumbered(<<"A">>, March, 1, Txt)

=============================================================================
